---- MODULE Spec2Model ----
(***************************************************************************)
(* analyze-require-default: the path resolver, the scan/analyze queues and *)
(* the module registry of both Analyzer variants held in src/src/index.ts  *)
(* (directory-scan: lines 1-329, entry-seeded: lines 331-662).             *)
(*                                                                         *)
(* A path is a record [abs, segs]: abs tells whether the string starts     *)
(* with the separator, segs are its segments as written.  A segment is a   *)
(* pair <<name, ext>> as path.parse splits it ("b.js" is <<"b", ".js">>,   *)
(* "." is <<".", "">>), so that path.extname and path.parse are computed   *)
(* and not guessed.                                                        *)
(***************************************************************************)
EXTENDS Integers, Sequences, FiniteSets, TLC

\* ------------------------------------------------------------------ paths

Seg(n, e) == <<n, e>>
Dot == Seg(".", "")
DotDot == Seg("..", "")

\* The segment as the string it is written as.
SegStr(s) == s[1] \o s[2]

Rel(segs) == [abs |-> FALSE, segs |-> segs]
Abs(segs) == [abs |-> TRUE, segs |-> segs]

\* The empty string (the default value of `parent` in res).
EmptyPath == Rel(<<>>)

IsAbsolute(p) == p.abs

\* path.normalize on the segments: "." is dropped, ".." removes the segment
\* before it (nothing above the root of an absolute path, kept in front of a
\* relative one).
RECURSIVE NormSegs(_, _, _)
NormSegs(segs, acc, abs) ==
  IF segs = <<>> THEN acc
  ELSE LET s == Head(segs)
           rest == Tail(segs)
       IN IF s = Dot THEN NormSegs(rest, acc, abs)
          ELSE IF s = DotDot
               THEN IF acc # <<>> /\ acc[Len(acc)] # DotDot
                    THEN NormSegs(rest, SubSeq(acc, 1, Len(acc) - 1), abs)
                    ELSE IF abs THEN NormSegs(rest, acc, abs)
                         ELSE NormSegs(rest, Append(acc, s), abs)
               ELSE NormSegs(rest, Append(acc, s), abs)

\* path.normalize: an empty relative result is ".".
Normalized(abs, segs) ==
  IF segs = <<>> /\ ~abs THEN Rel(<<Dot>>) ELSE [abs |-> abs, segs |-> segs]

Normalize(p) == Normalized(p.abs, NormSegs(p.segs, <<>>, p.abs))

\* path.join(a, b): the non-empty arguments joined by the separator, then
\* normalized; a leading separator of b is one more separator in the middle.
PathJoin(a, b) ==
  Normalize(IF a = EmptyPath THEN b
            ELSE IF b = EmptyPath THEN a
            ELSE [abs |-> a.abs, segs |-> a.segs \o b.segs])

\* path.dirname: everything before the last segment, not normalized.
Dirname(p) ==
  IF Len(p.segs) <= 1
  THEN (IF p.abs THEN Abs(<<>>) ELSE Rel(<<Dot>>))
  ELSE [abs |-> p.abs, segs |-> SubSeq(p.segs, 1, Len(p.segs) - 1)]

\* path.basename: the last segment.
Basename(p) == IF p.segs = <<>> THEN Seg("", "") ELSE p.segs[Len(p.segs)]

\* path.extname: the extension of the last segment, "" when it has none.
Extname(p) == Basename(p)[2]

\* path.resolve(base, request) in the working directory cwd: the rightmost
\* absolute argument wins.
PathResolve(cwd, base, request) ==
  Normalize(IF request.abs THEN request
            ELSE IF base.abs THEN Abs(base.segs \o request.segs)
            ELSE Abs(cwd.segs \o base.segs \o request.segs))

\* ------------------------------------------------------------ file system

\* The files on disk.  /w/app is a flat project (a.js, b.js, c.js and an
\* installed package); /w/fix holds the shapes the resolver has to tell
\* apart: a sibling file and a directory of one name (foo.ts, foo/index.js),
\* a sibling file alone (solo.ts), a directory with only an index
\* (bar/index.tsx), a nested file, an alias target and an installed package;
\* /w/scan holds what the scanner has to tell apart: parseable files at the
\* top and nested, a file that is not parseable, a repository directory, an
\* installed package, and a file whose name holds "git" inside a word.
W == Seg("w", "")
App == Seg("app", "")
Fix == Seg("fix", "")
NodeModules == Seg("node_modules", "")
FileA == Abs(<<W, App, Seg("a", ".js")>>)
FileB == Abs(<<W, App, Seg("b", ".js")>>)
FileC == Abs(<<W, App, Seg("c", ".js")>>)
AppLib == Abs(<<W, App, NodeModules, Seg("lib", ""), Seg("index", ".js")>>)
FixP == Abs(<<W, Fix, Seg("p", ".js")>>)
FixFooTs == Abs(<<W, Fix, Seg("foo", ".ts")>>)
FixSoloTs == Abs(<<W, Fix, Seg("solo", ".ts")>>)
FixFooIndex == Abs(<<W, Fix, Seg("foo", ""), Seg("index", ".js")>>)
FixBarIndex == Abs(<<W, Fix, Seg("bar", ""), Seg("index", ".tsx")>>)
FixSubQ == Abs(<<W, Fix, Seg("sub", ""), Seg("q", ".js")>>)
FixUtilU == Abs(<<W, Fix, Seg("util", ""), Seg("u", ".js")>>)
FixLib == Abs(<<W, Fix, NodeModules, Seg("lib", ""), Seg("index", ".js")>>)

Scn == Seg("scan", "")
ScnMain == Abs(<<W, Scn, Seg("main", ".ts")>>)
ScnView == Abs(<<W, Scn, Seg("view", ".jsx")>>)
ScnData == Abs(<<W, Scn, Seg("data", ".json")>>)
ScnDigit == Abs(<<W, Scn, Seg("digit", ".js")>>)
ScnHooks == Abs(<<W, Scn, Seg(".git", ""), Seg("hooks", ".js")>>)
ScnLib == Abs(<<W, Scn, NodeModules, Seg("lib", ""), Seg("index", ".js")>>)
ScnDeep == Abs(<<W, Scn, Seg("src", ""), Seg("deep", ".js")>>)

AppFiles == {FileA, FileB, FileC, AppLib}
FixFiles == {FixP, FixFooTs, FixSoloTs, FixFooIndex, FixBarIndex, FixSubQ, FixUtilU, FixLib}
ScnFiles == {ScnMain, ScnView, ScnData, ScnDigit, ScnHooks, ScnLib, ScnDeep}
Files == AppFiles \cup FixFiles \cup ScnFiles

\* Every entry name on disk, in the order of strcmp: fs.readdirSync lists a
\* directory in that order.
NameOrder ==
  << Seg(".git", ""), Seg("a", ".js"), Seg("app", ""), Seg("b", ".js"),
     Seg("bar", ""), Seg("c", ".js"), Seg("data", ".json"), Seg("deep", ".js"),
     Seg("digit", ".js"), Seg("fix", ""), Seg("foo", ""), Seg("foo", ".ts"),
     Seg("hooks", ".js"), Seg("index", ".js"), Seg("index", ".tsx"),
     Seg("lib", ""), Seg("main", ".ts"), Seg("node_modules", ""),
     Seg("p", ".js"), Seg("q", ".js"), Seg("scan", ""), Seg("solo", ".ts"),
     Seg("src", ""), Seg("sub", ""), Seg("u", ".js"), Seg("util", ""),
     Seg("view", ".jsx"), Seg("w", "") >>

IsPrefix(s, t) == Len(s) <= Len(t) /\ SubSeq(t, 1, Len(s)) = s

\* fs: an absolute normalized path is a file, or a directory (a proper
\* prefix of a file's path).
IsFile(p) == p \in Files
IsDir(p) == p.abs /\ \E f \in Files : Len(p.segs) < Len(f.segs) /\ IsPrefix(p.segs, f.segs)
Exists(p) == p \in Files \/ IsDir(p)

\* A path as the file system reads it: relative to the working directory.
OnDisk(cwd, p) == PathResolve(cwd, EmptyPath, p)

\* The entries of the directory d (absolute, normalized) in the order of
\* readdir; none when d is no directory.
Entries(d) ==
  LET below == {f \in Files : /\ Len(d.segs) < Len(f.segs)
                               /\ SubSeq(f.segs, 1, Len(d.segs)) = d.segs}
      names == {f.segs[Len(d.segs) + 1] : f \in below}
  IN  SelectSeq(NameOrder, LAMBDA s : s \in names)

\* fs.readdirSync(dir): the entries of dir.  A failure (ENOENT, ENOTDIR) is
\* the empty list: resolveWithExtension catches it and goes on as if nothing
\* matched, and scan only lists directories that exist.
Readdir(cwd, dir) == Entries(OnDisk(cwd, dir))

\* ------------------------------------------------------- require.resolve

\* Module._extensions of the runtime, in the order it tries them.
NodeExtensions == <<".js", ".json", ".node">>
BuiltinModules == {Seg("fs", ""), Seg("path", "")}

Failed == [ok |-> FALSE, path |-> EmptyPath]
Found(p) == [ok |-> TRUE, path |-> p]

\* base with ext appended to its last segment.
AddExt(base, ext) ==
  [abs |-> base.abs,
   segs |-> SubSeq(base.segs, 1, Len(base.segs) - 1)
              \o <<Seg(SegStr(Basename(base)), ext)>>]

\* tryExtensions: base with each extension of the runtime, in order.
WithExtensions(base) == [i \in 1..Len(NodeExtensions) |-> AddExt(base, NodeExtensions[i])]

\* The first candidate that is a file.
FirstFile(candidates) ==
  IF SelectSeq(candidates, IsFile) = <<>> THEN Failed
  ELSE Found(SelectSeq(candidates, IsFile)[1])

\* Module._findPath for one base path: the file itself, the file with an
\* extension of the runtime, the index file of the directory.
FindPath(base) ==
  FirstFile(<<base>> \o WithExtensions(base)
              \o (IF IsDir(base)
                  THEN WithExtensions(Abs(base.segs \o <<Seg("index", "")>>))
                  ELSE <<>>))

\* Module._nodeModulePaths: node_modules of the directory and of each of its
\* ancestors, nearest first; the first that holds the request.
RECURSIVE LookupNodeModules(_, _)
LookupNodeModules(dirSegs, request) ==
  IF /\ (dirSegs = <<>> \/ dirSegs[Len(dirSegs)] # NodeModules)
     /\ FindPath(Abs(dirSegs \o <<NodeModules>> \o request.segs)).ok
  THEN FindPath(Abs(dirSegs \o <<NodeModules>> \o request.segs))
  ELSE IF dirSegs = <<>> THEN Failed
  ELSE LookupNodeModules(SubSeq(dirSegs, 1, Len(dirSegs) - 1), request)

IsRelativeRequest(p) == ~p.abs /\ p.segs # <<>> /\ p.segs[1] \in {Dot, DotDot}

\* require.resolve(request, {paths: [lookup]}), or require.resolve(request, {})
\* for an absolute request: a builtin resolves to its own name, an absolute
\* request to itself, a relative one against the lookup path (which must be
\* a directory), any other through node_modules.
NodeResolve(cwd, request, lookup) ==
  IF ~request.abs /\ Len(request.segs) = 1 /\ request.segs[1] \in BuiltinModules
  THEN Found(request)
  ELSE IF request.abs \/ (IsRelativeRequest(request) /\ IsDir(OnDisk(cwd, lookup)))
       THEN FindPath(PathResolve(cwd, lookup, request))
       ELSE IF IsRelativeRequest(request) \/ request.segs = <<>> THEN Failed
            ELSE LookupNodeModules(OnDisk(cwd, lookup).segs, request)

\* ------------------------------------------------------------- resolver
\* The configuration of a run: cfg.cwd is process.cwd(), cfg.root is
\* this.root (this.options.root in the entry-seeded variant) as given, and
\* cfg.alias is options.alias, a function from a first segment to the path
\* that replaces it.

\* An optional parent: undefined (NoParent) or a path.
\* The value of node.arguments[0].value when the argument of require is no
\* string literal.
Undefined == [undefined |-> TRUE]

NoParent == [def |-> FALSE, path |-> EmptyPath]
Some(p) == [def |-> TRUE, path |-> p]

\* path.extname(parent) ? path.dirname(parent) : parent
DirOfParent(par) == IF Extname(par) # "" THEN Dirname(par) ELSE par

\* getFullPath(filePath, parent = root).
GetFullPath(cfg, filePath, parent) ==
  IF IsAbsolute(filePath) THEN filePath
  ELSE PathJoin(DirOfParent(IF parent.def THEN parent.path ELSE cfg.root), filePath)

\* normalizeFilePath: "./" is put in front of a path that starts with neither
\* "./" nor "../" nor the separator.
NormalizeFilePath(filePath) ==
  IF \/ IsAbsolute(filePath)
     \/ (Len(filePath.segs) >= 2 /\ filePath.segs[1] \in {Dot, DotDot})
  THEN filePath
  ELSE Rel(<<Dot>> \o filePath.segs)

\* The first segment of filePath.split(path.sep).
FirstSegment(filePath) ==
  IF filePath.abs \/ filePath.segs = <<>> THEN "" ELSE SegStr(filePath.segs[1])

\* parts.join(path.sep) after parts[0] = value.
ReplaceFirst(filePath, value) ==
  [abs |-> value.abs,
   segs |-> value.segs \o (IF filePath.abs \/ filePath.segs = <<>>
                           THEN filePath.segs ELSE Tail(filePath.segs))]

\* replaceAlias with the two tests in the other order: the alias table is
\* consulted before the relative markers are.
ReplaceAliasLookupFirst(cfg, filePath) ==
  IF FirstSegment(filePath) \in DOMAIN cfg.alias
  THEN PathJoin(cfg.root, ReplaceFirst(filePath, cfg.alias[FirstSegment(filePath)]))
  ELSE filePath

\* replaceAlias.
ReplaceAlias(cfg, filePath) ==
  IF FirstSegment(filePath) = "." \/ FirstSegment(filePath) = ".." THEN filePath
  ELSE IF FirstSegment(filePath) \in DOMAIN cfg.alias
       THEN PathJoin(cfg.root, ReplaceFirst(filePath, cfg.alias[FirstSegment(filePath)]))
       ELSE filePath

\* res: require.resolve from the parent's directory; a failure is
\* process.exit(1), the result with ok = FALSE.
Res(cfg, filePath, parent) ==
  NodeResolve(cfg.cwd, filePath,
              IF IsAbsolute(filePath) THEN EmptyPath
              ELSE GetFullPath(cfg,
                               DirOfParent(IF parent.def THEN parent.path ELSE EmptyPath),
                               NoParent))

\* files.find(...): the entries whose name (extension stripped) is `name`
\* and that have an extension, the one found first; <<>> when there is none.
FindWithExtension(files, name) ==
  SelectSeq(files, LAMBDA f : f[1] = name /\ f[2] # "")

\* The two probes of resolveWithExtension: a sibling of the name with any
\* extension, else an index file in the directory of that name, else the
\* path as it was given.
Probed(filePath, dirName, fileWithExtension, indexFile) ==
  IF fileWithExtension # <<>>
  THEN NormalizeFilePath(PathJoin(dirName, Rel(<<fileWithExtension[1]>>)))
  ELSE IF indexFile # <<>>
       THEN NormalizeFilePath(PathJoin(filePath, Rel(<<indexFile[1]>>)))
       ELSE filePath

Probe(cfg, filePath, fullPath) ==
  Probed(filePath, Dirname(fullPath),
         FindWithExtension(Readdir(cfg.cwd, Dirname(fullPath)), SegStr(Basename(fullPath))),
         FindWithExtension(Readdir(cfg.cwd, fullPath), "index"))

\* resolveWithExtension.
ResolveWithExtension(cfg, filePath, parent) ==
  Res(cfg,
      IF Extname(filePath) # "" THEN filePath
      ELSE Probe(cfg, filePath, GetFullPath(cfg, filePath, parent)),
      parent)

\* resolveFilePath of the directory-scan variant: an absolute specifier is
\* returned as it is.  path.isAbsolute of a value that is no string throws
\* a TypeError that nothing catches: the process ends as it does on exit.
ResolveFilePath(cfg, filePath, parent) ==
  IF filePath = Undefined THEN Failed
  ELSE IF IsAbsolute(filePath) THEN Found(filePath)
       ELSE ResolveWithExtension(cfg, ReplaceAlias(cfg, filePath), Some(parent))

\* resolveFilePath of the entry-seeded variant; filePath.split of a value
\* that is no string throws in replaceAlias.
ResolveFilePathE(cfg, filePath, parent) ==
  IF filePath = Undefined THEN Failed
  ELSE ResolveWithExtension(cfg, ReplaceAlias(cfg, filePath), parent)

\* -------------------------------------------------------- source files
\* A source file is the sequence of the syntax nodes the visitors look at, in
\* the order traverse reaches them: a default-export declaration, a call of
\* require with a string literal, an import declaration.  The form of a
\* require tells what contains the call:
\*   "plain"   const x = require('m')           (a VariableDeclarator)
\*   "member"  const x = require('m').default   (a MemberExpression)

ExportDefault == [kind |-> "export", form |-> "", spec |-> EmptyPath]
Require(form, spec) == [kind |-> "require", form |-> form, spec |-> spec]
Import(spec) == [kind |-> "import", form |-> "", spec |-> spec]

\* PARSEABLE_EXTENSIONS
ParseableExtensions == {".ts", ".js", ".jsx"}

\* The longest source file of the model, in nodes.
MaxNodes == 2

SpecB == Rel(<<Dot, Seg("b", "")>>)
SpecC == Rel(<<Dot, Seg("c", "")>>)

\* The nodes b.js and c.js are written with.
NodeVocab ==
  {ExportDefault, Require("plain", SpecB), Require("plain", SpecC),
   Require("member", SpecB)}

\* The programs of at most MaxNodes nodes; the parser rejects a second
\* default export in one module.
Programs ==
  {p \in UNION {[1..n -> NodeVocab] : n \in 0..MaxNodes} :
     \A i, j \in DOMAIN p : (p[i] = ExportDefault /\ p[j] = ExportDefault) => i = j}

\* container.id?.type === 'Identifier'
IsPlainVarDeclaration(node) == node.form = "plain"
\* (container as MemberExpression).property?.name
ContainerProperty(node) == node.form = "member"

\* ------------------------------------------------------------ the queue
\* Queue.push, Queue.pop and Queue.hasItems on the items in order.
QPush(q, item) == Append(q, item)
QHasItems(q) == q # <<>>
QPopped(q) == IF q = <<>> THEN q ELSE Tail(q)

\* The Queue as the linked list it is.  A node is a number, 0 stands for
\* undefined; next and value are the fields of the nodes created so far.
NoNode == 0
NewQueue == [root |-> NoNode, last |-> NoNode, next |-> <<>>, value |-> <<>>]

\* push with the test of this.last alone.
PushLastOnly(q, item) ==
  IF q.last = NoNode
  THEN [root |-> Len(q.value) + 1, last |-> Len(q.value) + 1,
        next |-> Append(q.next, NoNode), value |-> Append(q.value, item)]
  ELSE [root |-> q.root, last |-> Len(q.value) + 1,
        next |-> [Append(q.next, NoNode) EXCEPT ![q.last] = Len(q.value) + 1],
        value |-> Append(q.value, item)]

\* Queue.push: a new node; the root and last when there is no root or no
\* last, else the next of the previous last and the new last.
Push(q, item) ==
  IF q.root = NoNode \/ q.last = NoNode
  THEN [root |-> Len(q.value) + 1, last |-> Len(q.value) + 1,
        next |-> Append(q.next, NoNode), value |-> Append(q.value, item)]
  ELSE [root |-> q.root, last |-> Len(q.value) + 1,
        next |-> [Append(q.next, NoNode) EXCEPT ![q.last] = Len(q.value) + 1],
        value |-> Append(q.value, item)]

\* Queue.pop: the queue after it (last is left as it was), and what it
\* returns, <<>> standing for null.
Pop(q) == IF q.root = NoNode THEN q ELSE [q EXCEPT !.root = q.next[q.root]]
PopValue(q) == IF q.root = NoNode THEN <<>> ELSE <<q.value[q.root]>>

\* get hasItems
HasItems(q) == q.root # NoNode

\* The Queue that tracks its size: the same list with a counter, which push
\* increments and pop decrements when it removes a node.
NewSizedQueue ==
  [root |-> NoNode, last |-> NoNode, next |-> <<>>, value |-> <<>>, size |-> 0]

TracksSize(q) == "size" \in DOMAIN q

SizedPush(q, item) == [size |-> q.size + 1] @@ Push(q, item)

\* pop with the decrement before the test of this.root.
SizedPopAlways(q) == [Pop(q) EXCEPT !.size = @ - 1]

SizedPop(q) == IF q.root = NoNode THEN q ELSE [Pop(q) EXCEPT !.size = @ - 1]

\* ---------------------------------------------------------- the registry
\* analyzedModules (directory-scan) and suspiciousModules (entry-seeded) are
\* objects keyed by path; the model keeps the records in the order their
\* keys were inserted, which is the order `for ... in` reads them in.

ModuleData(key) == [key |-> key, hasDefaultExport |-> FALSE, callers |-> <<>>]

RegHas(reg, key) == \E i \in 1..Len(reg) : reg[i].key = key
RegIndex(reg, key) == CHOOSE i \in 1..Len(reg) : reg[i].key = key
RegKeys(reg) == {reg[i].key : i \in 1..Len(reg)}

\* A caller as printed: the parent file, and the line of the call (0 in the
\* entry-seeded variant, which records no location).
CallerRef(parent, line) == [file |-> parent, line |-> line]

\* suspectModule putting the caller at the head of the list.
AddCallerFirst(reg, resolved, caller) ==
  IF RegHas(reg, resolved)
  THEN [reg EXCEPT ![RegIndex(reg, resolved)].callers = <<caller>> \o @]
  ELSE Append(reg, [key |-> resolved, hasDefaultExport |-> FALSE,
                    callers |-> <<caller>>])

\* The body of suspectModule after the resolution: push the caller on the
\* record of the resolved path, or create the record with that caller.
AddCaller(reg, resolved, caller) ==
  IF RegHas(reg, resolved)
  THEN [reg EXCEPT ![RegIndex(reg, resolved)].callers = Append(@, caller)]
  ELSE Append(reg, [key |-> resolved, hasDefaultExport |-> FALSE,
                    callers |-> <<caller>>])

\* suspectModule once the path is resolved; a failed resolution has called
\* process.exit.  st is the state of a traversal: the registry (and, in the
\* entry-seeded variant, the queue), and whether the process has exited.
Suspect(st, resolved, caller) ==
  IF ~resolved.ok THEN [st EXCEPT !.exit = TRUE]
  ELSE [st EXCEPT !.reg = AddCaller(st.reg, resolved.path, caller)]

\* ------------------------------------------- directory-scan variant

\* suspectModule (directory-scan).
SuspectModule(cfg, st, filePath, parent, line) ==
  Suspect(st, ResolveFilePath(cfg, filePath, parent), CallerRef(parent, line))

\* The visitors with a CallExpression visitor that does not look at what
\* contains the call.
VisitAnyRequire(cfg, st, filePath, node, line) ==
  IF node.kind = "export"
  THEN [st EXCEPT !.reg[RegIndex(st.reg, filePath)].hasDefaultExport = TRUE]
  ELSE IF node.kind = "require"
       THEN SuspectModule(cfg, st, node.spec, filePath, line)
       ELSE st

\* The visitors of analyze (directory-scan) on one node.
Visit(cfg, st, filePath, node, line) ==
  IF node.kind = "export"
  THEN [st EXCEPT !.reg[RegIndex(st.reg, filePath)].hasDefaultExport = TRUE]
  ELSE IF node.kind = "require"
       THEN IF ~IsPlainVarDeclaration(node) \/ ContainerProperty(node) THEN st
            ELSE SuspectModule(cfg, st, node.spec, filePath, line)
       ELSE st

RECURSIVE Traverse(_, _, _, _, _)
Traverse(cfg, st, filePath, nodes, i) ==
  IF i > Len(nodes) \/ st.exit THEN st
  ELSE Traverse(cfg, Visit(cfg, st, filePath, nodes[i], i), filePath, nodes, i + 1)

\* A path as the string the program holds.
RECURSIVE JoinSegs(_, _)
JoinSegs(segs, i) ==
  IF i > Len(segs) THEN ""
  ELSE IF i = Len(segs) THEN SegStr(segs[i])
       ELSE SegStr(segs[i]) \o "/" \o JoinSegs(segs, i + 1)

PathString(p) == (IF p.abs THEN "/" ELSE "") \o JoinSegs(p.segs, 1)

\* DEFAULT_OPTIONS.ignore, and the alternatives of ALWAYS_IGNORE.
DefaultIgnore == "node_modules"
AlwaysIgnore == <<".git", ".vscode", ".idea">>

\* this.options.ignore: the option as given, or its default.
IgnoreOf(c) == IF "ignore" \in DOMAIN c THEN c.ignore ELSE DefaultIgnore

\* The pattern (literal characters, and "." for any character) matches the
\* string str from position k on.
MatchesAt(pat, str, k) ==
  \A i \in 1..Len(pat) :
    SubSeq(pat, i, i) = "." \/ SubSeq(pat, i, i) = SubSeq(str, k + i - 1, k + i - 1)

\* RegExp.test for a pattern without anchors: a match at some position.
RegExpTest(pat, str) ==
  \E k \in 1..(Len(str) - Len(pat) + 1) : MatchesAt(pat, str, k)

\* this.ignoreRegex.test(fullPath), the expression being
\* `${ignore}|.git|.vscode|.idea`: one of the alternatives is found
\* somewhere in the path string.
IgnoreRegexTest(ignore, fullPath) ==
  LET str == PathString(fullPath)
      alternatives == <<ignore>> \o AlwaysIgnore
  IN  \E a \in DOMAIN alternatives : RegExpTest(alternatives[a], str)

\* The body of the forEach of scan for one entry.
ScanEntry(cwd, ignore, qs, fullPath) ==
  IF IgnoreRegexTest(ignore, fullPath) THEN qs
  ELSE IF IsDir(OnDisk(cwd, fullPath))
       THEN [qs EXCEPT !.scan = QPush(@, fullPath)]
       ELSE IF Extname(fullPath) \in ParseableExtensions
            THEN [qs EXCEPT !.analyze = QPush(@, fullPath)]
            ELSE qs

\* The forEach of scan over the entries of one directory.
RECURSIVE ScanEntries(_, _, _, _, _, _)
ScanEntries(cwd, ignore, dirPath, files, i, qs) ==
  IF i > Len(files) THEN qs
  ELSE ScanEntries(cwd, ignore, dirPath, files, i + 1,
                   ScanEntry(cwd, ignore, qs, PathJoin(dirPath, Rel(<<files[i]>>))))

\* scan: drains scanQueue, filling analyzeQueue.
RECURSIVE Scan(_, _, _)
Scan(cwd, ignore, qs) ==
  IF ~QHasItems(qs.scan) THEN qs
  ELSE Scan(cwd, ignore,
            ScanEntries(cwd, ignore, Head(qs.scan), Readdir(cwd, Head(qs.scan)), 1,
                        [qs EXCEPT !.scan = QPopped(@)]))

\* The report with || where execute has &&.
UsagesEitherFact(reg) ==
  SelectSeq(reg, LAMBDA r : r.hasDefaultExport \/ Len(r.callers) > 0)

\* The report of execute: the records with a default export and a caller.
Usages(reg) ==
  SelectSeq(reg, LAMBDA r : r.hasDefaultExport /\ Len(r.callers) > 0)

\* analyze without its guard: a path that has a record is parsed again under
\* a fresh record.
AnalyzeFresh(cfg, reg, filePath, nodes) ==
  [parsed |-> TRUE] @@
  Traverse(cfg,
           [reg |-> IF RegHas(reg, filePath)
                    THEN [reg EXCEPT ![RegIndex(reg, filePath)] = ModuleData(filePath)]
                    ELSE Append(reg, ModuleData(filePath)),
            exit |-> FALSE],
           filePath, nodes, 1)

\* analyze (directory-scan) of one path: the registry after it, whether the
\* file was parsed, whether the process has exited.
Analyze(cfg, reg, filePath, nodes) ==
  IF RegHas(reg, filePath)
  THEN [reg |-> reg, exit |-> FALSE, parsed |-> FALSE]
  ELSE [parsed |-> TRUE] @@
       Traverse(cfg, [reg |-> Append(reg, ModuleData(filePath)), exit |-> FALSE],
                filePath, nodes, 1)

\* ---------------------------------------------- entry-seeded variant

QueueItem(filePath, parent) == [filePath |-> filePath, parent |-> parent]

\* queueItem.parent?.includes('node_modules')
InNodeModules(parent) ==
  parent.def /\ \E i \in 1..Len(parent.path.segs) : parent.path.segs[i] = NodeModules

\* safePushToQueue; path.extname of a value that is no string throws.
SafePushToQueue(st, item) ==
  IF item.filePath = Undefined THEN [st EXCEPT !.exit = TRUE]
  ELSE IF \/ (Extname(item.filePath) # ""
                /\ Extname(item.filePath) \notin ParseableExtensions)
          \/ InNodeModules(item.parent)
       THEN st
       ELSE [st EXCEPT !.queue = QPush(@, item)]

\* markSuspiciousModule.
MarkSuspiciousModule(st, filePath) ==
  IF RegHas(st.reg, filePath)
  THEN [st EXCEPT !.reg[RegIndex(st.reg, filePath)].hasDefaultExport = TRUE]
  ELSE st

\* suspectModule (entry-seeded).
SuspectModuleE(cfg, st, filePath, parent) ==
  Suspect(st, ResolveFilePathE(cfg, filePath, Some(parent)), CallerRef(parent, 0))

\* The visitors of analyze (entry-seeded) on one node.
VisitE(cfg, st, resolvedPath, node) ==
  IF node.kind = "import"
  THEN SafePushToQueue(st, QueueItem(node.spec, Some(resolvedPath)))
  ELSE IF node.kind = "require"
       THEN IF ~IsPlainVarDeclaration(node) \/ ContainerProperty(node) THEN st
            ELSE SuspectModuleE(cfg,
                   SafePushToQueue(st, QueueItem(node.spec, Some(resolvedPath))),
                   node.spec, resolvedPath)
       ELSE IF node.kind = "export"
            THEN MarkSuspiciousModule(st, resolvedPath)
            ELSE st

RECURSIVE TraverseE(_, _, _, _, _)
TraverseE(cfg, st, resolvedPath, nodes, i) ==
  IF i > Len(nodes) \/ st.exit THEN st
  ELSE TraverseE(cfg, VisitE(cfg, st, resolvedPath, nodes[i]), resolvedPath, nodes, i + 1)

\* The end of analyze without analyzedModules.add.
AnalyzedNotAdded(st, resolvedPath) ==
  [st EXCEPT !.parsed = <<resolvedPath>>]

\* The end of analyze (entry-seeded): analyzedModules.add(resolvedPath),
\* unless the traversal has exited.
Analyzed(st, resolvedPath) ==
  IF st.exit THEN [st EXCEPT !.parsed = <<resolvedPath>>]
  ELSE [st EXCEPT !.parsed = <<resolvedPath>>, !.done = @ \cup {resolvedPath}]

\* analyze (entry-seeded) without the test of analyzedModules.has.
AnalyzeResolvedUnguarded(cfg, st, resolved, files) ==
  IF ~resolved.ok THEN [st EXCEPT !.exit = TRUE]
  ELSE IF Extname(resolved.path) \notin ParseableExtensions
       THEN st
       ELSE Analyzed(TraverseE(cfg, st, resolved.path, files[resolved.path], 1),
                     resolved.path)

\* analyze (entry-seeded) once the item is resolved.  st holds the registry,
\* the queue, the set analyzedModules (done), the files parsed by this call
\* and whether the process has exited.
AnalyzeResolved(cfg, st, resolved, files) ==
  IF ~resolved.ok THEN [st EXCEPT !.exit = TRUE]
  ELSE IF \/ resolved.path \in st.done
          \/ Extname(resolved.path) \notin ParseableExtensions
       THEN st
       ELSE Analyzed(TraverseE(cfg, st, resolved.path, files[resolved.path], 1),
                     resolved.path)

\* analyze (entry-seeded) of one queue item.
AnalyzeE(cfg, st, item, files) ==
  AnalyzeResolved(cfg, st, ResolveFilePathE(cfg, item.filePath, item.parent), files)

\* The pushes of the constructor (entry-seeded), one item per entry.
RECURSIVE PushEntries(_, _, _)
PushEntries(q, es, i) ==
  IF i > Len(es) THEN q
  ELSE PushEntries(QPush(q, QueueItem(es[i], NoParent)), es, i + 1)

\* validate: the root exists.
Validate(cfg) == Exists(OnDisk(cfg.cwd, cfg.root))

\* ------------------------------------------------------------- the runs

VARIABLES
  variant,            \* "scan": directory-scan, "entry": entry-seeded
  cfg,                \* process.cwd(), the root as given, options.alias
  entries,            \* the entries given to the entry-seeded constructor
  content,            \* the nodes of every file on disk
  pc,                 \* "new", "run" (the loop of execute), "done", "exit"
  scanQueue,          \* directory-scan: this.scanQueue
  analyzeQueue,       \* directory-scan: this.analyzeQueue
  analyzedModules,    \* directory-scan: this.analyzedModules
  queue,              \* entry-seeded: this.queue
  analyzedSet,        \* entry-seeded: this.analyzedModules (a Set)
  suspiciousModules,  \* entry-seeded: this.suspiciousModules
  parsed,             \* history: the paths read and parsed, in order
  usages,             \* the report printed by execute
  request,            \* a call of the resolver alone: <<[filePath, parent]>>
  resolution,         \* <<the result of resolveFilePath(request)>>
  aliased,            \* <<the result of replaceAlias(request.filePath)>>
  list,               \* a Queue alone: its nodes, root and last
  trace               \* the calls made on that Queue, with what they returned

vars == <<variant, cfg, entries, content, pc, scanQueue, analyzeQueue,
          analyzedModules, queue, analyzedSet, suspiciousModules, parsed, usages,
          request, resolution, aliased, list, trace>>

\* The variables of a Queue alone.
qvars == <<list, trace>>
\* The variables of a call of the resolver alone.
rvars == <<request, resolution, aliased>>
\* The variables of a run.
runvars == <<variant, cfg, entries, content, scanQueue, analyzeQueue,
             analyzedModules, queue, analyzedSet, suspiciousModules, parsed, usages>>

CwdW == Abs(<<W>>)
CwdApp == Abs(<<W, App>>)
NoAlias == [k \in {} |-> EmptyPath]

\* The directory-scan runs: the root as an absolute path, as a path relative
\* to the working directory (the README's ./app), as "." from inside the
\* project, and a root that does not exist.
ScanCfgs ==
  { [cwd |-> CwdW, root |-> Abs(<<W, App>>), alias |-> NoAlias],
    [cwd |-> CwdW, root |-> Rel(<<Dot, App>>), alias |-> NoAlias],
    [cwd |-> CwdApp, root |-> Rel(<<Dot>>), alias |-> NoAlias],
    [cwd |-> CwdW, root |-> Rel(<<Dot, Seg("nope", "")>>), alias |-> NoAlias] }

\* The entry-seeded runs: the default root, process.cwd().
EntryCfgs == { [cwd |-> CwdApp, root |-> CwdApp, alias |-> NoAlias] }

EntryB == Rel(<<Dot, Seg("b", ".js")>>)
EntryC == Rel(<<Dot, Seg("c", ".js")>>)
EntryLists == {<<EntryB>>, <<EntryB, EntryC>>, <<EntryC, EntryB>>}

\* a.js is CommonJS (module.exports = 1), the installed packages and the
\* files of /w/fix and /w/scan hold a default export; b.js and c.js are any
\* program.
FileContent(b, c) ==
  [f \in Files |->
     IF f = FileB THEN b
     ELSE IF f = FileC THEN c
     ELSE IF f = FileA THEN <<>>
     ELSE <<ExportDefault>>]

Init ==
  /\ variant \in {"scan", "entry"}
  /\ cfg \in (IF variant = "scan" THEN ScanCfgs ELSE EntryCfgs)
  /\ entries \in (IF variant = "scan" THEN {<<>>} ELSE EntryLists)
  /\ \E b \in Programs, c \in Programs : content = FileContent(b, c)
  /\ pc = "new"
  /\ scanQueue = <<>>
  /\ analyzeQueue = <<>>
  /\ analyzedModules = <<>>
  /\ queue = <<>>
  /\ analyzedSet = {}
  /\ suspiciousModules = <<>>
  /\ parsed = <<>>
  /\ usages = <<>>
  /\ request = <<>>
  /\ resolution = <<>>
  /\ aliased = <<>>
  /\ list = NewQueue
  /\ trace = <<>>

Scanned(qs) ==
  /\ scanQueue' = qs.scan
  /\ analyzeQueue' = qs.analyze
  /\ pc' = "run"

\* constructor (directory-scan): validate, push the root, scan.
Construct ==
  /\ variant = "scan" /\ pc = "new"
  /\ IF Validate(cfg)
     THEN Scanned(Scan(cfg.cwd, IgnoreOf(cfg),
                       [scan |-> QPush(scanQueue, cfg.root),
                        analyze |-> analyzeQueue]))
     ELSE /\ pc' = "exit"
          /\ UNCHANGED <<scanQueue, analyzeQueue>>
  /\ UNCHANGED <<qvars, rvars, variant, cfg, entries, content, analyzedModules, queue,
                 analyzedSet, suspiciousModules, parsed, usages>>

AnalyzedNext(r, filePath) ==
  /\ analyzedModules' = r.reg
  /\ parsed' = IF r.parsed THEN Append(parsed, filePath) ELSE parsed
  /\ pc' = IF r.exit THEN "exit" ELSE "run"

\* One turn of the loop of execute (directory-scan): pop, analyze.
AnalyzeNext ==
  /\ variant = "scan" /\ pc = "run" /\ QHasItems(analyzeQueue)
  /\ AnalyzedNext(Analyze(cfg, analyzedModules, Head(analyzeQueue),
                          content[OnDisk(cfg.cwd, Head(analyzeQueue))]),
                  Head(analyzeQueue))
  /\ analyzeQueue' = QPopped(analyzeQueue)
  /\ UNCHANGED <<qvars, rvars, variant, cfg, entries, content, scanQueue, queue, analyzedSet,
                 suspiciousModules, usages>>

\* The end of execute (directory-scan): the queue is empty, print the report.
Report ==
  /\ variant = "scan" /\ pc = "run" /\ ~QHasItems(analyzeQueue)
  /\ usages' = Usages(analyzedModules)
  /\ pc' = "done"
  /\ UNCHANGED <<qvars, rvars, variant, cfg, entries, content, scanQueue, analyzeQueue,
                 analyzedModules, queue, analyzedSet, suspiciousModules, parsed>>

\* constructor (entry-seeded): push the entries, validate.
ConstructE ==
  /\ variant = "entry" /\ pc = "new"
  /\ queue' = PushEntries(queue, entries, 1)
  /\ pc' = IF Validate(cfg) THEN "run" ELSE "exit"
  /\ UNCHANGED <<qvars, rvars, variant, cfg, entries, content, scanQueue, analyzeQueue,
                 analyzedModules, analyzedSet, suspiciousModules, parsed, usages>>

AnalyzedNextE(r) ==
  /\ suspiciousModules' = r.reg
  /\ queue' = r.queue
  /\ analyzedSet' = r.done
  /\ parsed' = parsed \o r.parsed
  /\ pc' = IF r.exit THEN "exit" ELSE "run"

\* One turn of the loop of execute (entry-seeded): pop, analyze.
AnalyzeNextE ==
  /\ variant = "entry" /\ pc = "run" /\ QHasItems(queue)
  /\ AnalyzedNextE(AnalyzeE(cfg,
                            [reg |-> suspiciousModules, queue |-> QPopped(queue),
                             done |-> analyzedSet, parsed |-> <<>>, exit |-> FALSE],
                            Head(queue), content))
  /\ UNCHANGED <<qvars, rvars, variant, cfg, entries, content, scanQueue, analyzeQueue,
                 analyzedModules, usages>>

\* The end of execute (entry-seeded).
ReportE ==
  /\ variant = "entry" /\ pc = "run" /\ ~QHasItems(queue)
  /\ usages' = Usages(suspiciousModules)
  /\ pc' = "done"
  /\ UNCHANGED <<qvars, rvars, variant, cfg, entries, content, scanQueue, analyzeQueue,
                 analyzedModules, queue, analyzedSet, suspiciousModules, parsed>>

\* The number execute prints as `Analyzed N modules`:
\* Object.keys(this.analyzedModules).length in the directory-scan variant,
\* this.analyzedModules.size in the entry-seeded one.
AnalyzedCount ==
  IF variant = "scan" THEN Len(analyzedModules) ELSE Cardinality(analyzedSet)

Next == Construct \/ AnalyzeNext \/ Report \/ ConstructE \/ AnalyzeNextE \/ ReportE

Spec == Init /\ [][Next]_vars

\* The runs over the other forms of require and import: b.js is any program
\* over a require of a sibling (bound to a variable, member-accessed, or a
\* statement of its own), of a relative path that names nothing, of an
\* absolute path that names nothing, of an installed package, of a module
\* built into the runtime, an import of that package, and a require whose
\* argument is no string literal.
SpecNothing == Rel(<<Dot, Seg("nothing", "")>>)
SpecAbsNothing == Abs(<<W, App, Seg("nothing", ".js")>>)
SpecLib == Rel(<<Seg("lib", "")>>)
SpecFs == Rel(<<Seg("fs", "")>>)

FormVocab ==
  {ExportDefault, Require("plain", SpecC), Require("plain", SpecNothing),
   Require("plain", SpecAbsNothing), Require("plain", SpecLib),
   Require("plain", SpecFs), Import(SpecLib), Require("plain", Undefined),
   Require("member", SpecC), Require("bare", SpecC)}

FormPrograms ==
  {p \in UNION {[1..n -> FormVocab] : n \in 0..MaxNodes} :
     \A i, j \in DOMAIN p : (p[i] = ExportDefault /\ p[j] = ExportDefault) => i = j}

InitForms ==
  /\ variant \in {"scan", "entry"}
  /\ cfg = [cwd |-> CwdApp, root |-> CwdApp, alias |-> NoAlias]
  /\ entries = (IF variant = "scan" THEN <<>> ELSE <<EntryB>>)
  /\ \E b \in FormPrograms, c \in {<<>>, <<ExportDefault>>} :
       content = FileContent(b, c)
  /\ pc = "new"
  /\ scanQueue = <<>>
  /\ analyzeQueue = <<>>
  /\ analyzedModules = <<>>
  /\ queue = <<>>
  /\ analyzedSet = {}
  /\ suspiciousModules = <<>>
  /\ parsed = <<>>
  /\ usages = <<>>
  /\ request = <<>>
  /\ resolution = <<>>
  /\ aliased = <<>>
  /\ list = NewQueue
  /\ trace = <<>>

SpecForms == InitForms /\ [][Next]_vars

\* ------------------------------------------------- the resolver alone
\* resolveFilePath and replaceAlias as pure functions: the configuration, the
\* referencing file and the specifier are drawn at the start, and a call
\* applies the function.

Utilities == Seg("Utilities", "")
UtilDir == Rel(<<Seg("util", "")>>)

\* The alias tables: a replacement relative to the root, an absolute one (as
\* in the README), and a table whose keys collide with the relative markers.
AliasTables ==
  { ("Utilities" :> UtilDir),
    ("Utilities" :> Abs(<<W, Fix, Seg("util", "")>>)),
    ("Utilities" :> UtilDir) @@ ("." :> UtilDir) @@ (".." :> UtilDir) }

\* The roots of /w/fix: absolute, relative to the working directory, and "."
\* from inside.
FixRoots ==
  { [cwd |-> CwdW, root |-> Abs(<<W, Fix>>)],
    [cwd |-> CwdW, root |-> Rel(<<Dot, Fix>>)],
    [cwd |-> Abs(<<W, Fix>>), root |-> Rel(<<Dot>>)] }

ResolveCfgs ==
  {[cwd |-> r.cwd, root |-> r.root, alias |-> a] : r \in FixRoots, a \in AliasTables}

\* The specifiers: relative without and with an extension, upwards, into a
\* directory, alias-prefixed, bare (a package, a builtin, a name that is also
\* a sibling), absolute, and one that names nothing.
Specifiers ==
  { Rel(<<Dot, Seg("foo", "")>>), Rel(<<Dot, Seg("solo", "")>>),
    Rel(<<Dot, Seg("bar", "")>>), Rel(<<Dot, Seg("p", "")>>),
    Rel(<<Dot, Seg("p", ".js")>>), Rel(<<DotDot, Seg("foo", "")>>),
    Rel(<<DotDot, Seg("p", ".js")>>), Rel(<<Dot, Seg("sub", ""), Seg("q", "")>>),
    Rel(<<Dot, Seg("nothere", "")>>), Rel(<<Utilities, Seg("u", "")>>),
    Rel(<<Utilities, Seg("u", ".js")>>), Rel(<<Seg("lib", "")>>),
    Rel(<<Seg("fs", "")>>), Rel(<<Seg("foo", "")>>),
    Abs(<<W, Fix, Seg("foo", "")>>), Abs(<<W, Fix, Seg("p", ".js")>>) }

\* The paths the scanner hands to analyze, in order.
ScanKeys(c) == Scan(c.cwd, IgnoreOf(c), [scan |-> <<c.root>>, analyze |-> <<>>]).analyze

\* The referencing files: in the directory-scan variant a path as the scanner
\* produced it; in the entry-seeded variant none (an entry) or a resolved
\* path.
Parents(v, c) ==
  IF v = "scan"
  THEN {Some(ScanKeys(c)[i]) : i \in 1..Len(ScanKeys(c))}
  ELSE {NoParent} \cup {Some(f) : f \in {FixP, FixSubQ}}

InitR ==
  /\ variant \in {"scan", "entry"}
  /\ cfg \in ResolveCfgs
  /\ \E s \in Specifiers, par \in Parents(variant, cfg) :
        request = <<[filePath |-> s, parent |-> par]>>
  /\ resolution = <<>>
  /\ aliased = <<>>
  /\ list = NewQueue
  /\ trace = <<>>
  /\ pc = "resolve"
  /\ entries = <<>>
  /\ content = FileContent(<<>>, <<>>)
  /\ scanQueue = <<>>
  /\ analyzeQueue = <<>>
  /\ analyzedModules = <<>>
  /\ queue = <<>>
  /\ analyzedSet = {}
  /\ suspiciousModules = <<>>
  /\ parsed = <<>>
  /\ usages = <<>>

\* A call of resolveFilePath.
ResolveCall ==
  /\ pc = "resolve" /\ resolution = <<>>
  /\ resolution' =
       << IF variant = "scan"
          THEN ResolveFilePath(cfg, request[1].filePath, request[1].parent.path)
          ELSE ResolveFilePathE(cfg, request[1].filePath, request[1].parent) >>
  /\ UNCHANGED <<qvars, runvars, pc, request, aliased>>

\* A call of replaceAlias.
ReplaceAliasCall ==
  /\ pc = "resolve" /\ aliased = <<>>
  /\ aliased' = <<ReplaceAlias(cfg, request[1].filePath)>>
  /\ UNCHANGED <<qvars, runvars, pc, request, resolution>>

NextR == ResolveCall \/ ReplaceAliasCall

SpecResolve == InitR /\ [][NextR]_vars

\* ---------------------------------------------- properties of the resolver

\* The directory a request is relative to, as it is on disk.
RequestDir ==
  IF request[1].parent.def
  THEN Dirname(OnDisk(cfg.cwd, request[1].parent.path))
  ELSE OnDisk(cfg.cwd, cfg.root)

\* The file or directory an extensionless relative request names.
RequestTarget == Normalize(PathJoin(RequestDir, request[1].filePath))

\* The files next to the target that carry its name and an extension, and
\* the index files inside the directory of its name.
Siblings ==
  {f \in Files : /\ Dirname(f) = Dirname(RequestTarget)
                  /\ Basename(f)[1] = SegStr(Basename(RequestTarget))
                  /\ Basename(f)[2] # ""}
Indexes ==
  {f \in Files : /\ Dirname(f) = RequestTarget
                  /\ Basename(f)[1] = "index"
                  /\ Basename(f)[2] # ""}

IsRelativeSpecifier(filePath) ==
  ~filePath.abs /\ filePath.segs # <<>> /\ filePath.segs[1] \in {Dot, DotDot}

\* C9: an extensionless relative specifier resolves to the sibling file of
\* that name with an extension when there is one (also when a directory of
\* that name holds an index file), and otherwise to the index file of the
\* directory of that name when there is one.
ExtensionFallbackOrder ==
  (/\ resolution # <<>>
   /\ IsRelativeSpecifier(request[1].filePath)
   /\ Extname(request[1].filePath) = "")
  => /\ Siblings # {} =>
          /\ resolution[1].ok
          /\ OnDisk(cfg.cwd, resolution[1].path) \in Siblings
     /\ (Siblings = {} /\ Indexes # {}) =>
          /\ resolution[1].ok
          /\ OnDisk(cfg.cwd, resolution[1].path) \in Indexes

\* C10: replaceAlias returns a specifier whose first segment is "." or ".."
\* as it was given, also when the alias table has that segment as a key, and
\* it rewrites a specifier only when its first segment is a key of the table.
AliasRewriteGuard ==
  aliased # <<>> =>
    /\ IsRelativeSpecifier(request[1].filePath) => aliased[1] = request[1].filePath
    /\ aliased[1] # request[1].filePath =>
         /\ ~request[1].filePath.abs
         /\ SegStr(request[1].filePath.segs[1]) \in DOMAIN cfg.alias

\* A relative specifier went through replaceAlias under a table that has
\* "." as a key, and a specifier was rewritten.
AliasRewriteGuardWitness ==
  /\ aliased # <<>>
  /\ "." \in DOMAIN cfg.alias
  /\ request[1].filePath = Rel(<<Dot, Seg("foo", "")>>)
  /\ aliased[1] = request[1].filePath


\* -------------------------------------------------- properties of a run

\* The registry of the variant that runs.
Registry == IF variant = "scan" THEN analyzedModules ELSE suspiciousModules

\* The file on disk a path denotes in this run.
FileOf(p) == OnDisk(cfg.cwd, p)

\* The nodes of the file read under the path p.
NodesOf(p) == content[FileOf(p)]

HasExportDefault(nodes) == \E i \in DOMAIN nodes : nodes[i] = ExportDefault

\* The resolution of a specifier written in the file read under `parent`.
ResolvedFrom(filePath, parent) ==
  IF variant = "scan" THEN ResolveFilePath(cfg, filePath, parent)
  ELSE ResolveFilePathE(cfg, filePath, Some(parent))

\* The call sites <<j, i>>: node i of the j-th file parsed is a require of
\* the given form.
Sites(form) ==
  {site \in (DOMAIN parsed) \X (1..MaxNodes) :
     /\ site[2] <= Len(NodesOf(parsed[site[1]]))
     /\ NodesOf(parsed[site[1]])[site[2]].kind = "require"
     /\ NodesOf(parsed[site[1]])[site[2]].form = form}

\* What the specifier of a call site resolves to.
SiteTarget(site) ==
  ResolvedFrom(NodesOf(parsed[site[1]])[site[2]].spec, parsed[site[1]])

\* The unsafe requires of a file with a default export: the call sites of
\* the plain form whose target is a file on disk that declares one.
UnsafeSites ==
  {site \in Sites("plain") :
     /\ SiteTarget(site).ok
     /\ FileOf(SiteTarget(site).path) \in Files
     /\ HasExportDefault(NodesOf(SiteTarget(site).path))}

\* C1: when execute has finished, every file with a default-export
\* declaration that an analysed file requires in the plain form is in the
\* printed list, in both variants and for every order of discovery.
ReportCompleteness ==
  pc = "done" =>
    \A site \in UnsafeSites :
      \E u \in DOMAIN usages : FileOf(usages[u].key) = FileOf(SiteTarget(site).path)

\* C2: when execute has finished, the registry record of a target with a
\* default export carries hasDefaultExport = TRUE and the entry of every
\* caller that requires it in the plain form, whichever of the two was
\* analysed first.
RegistryMergeCommutes ==
  pc = "done" =>
    \A site \in UnsafeSites :
      \E r \in DOMAIN Registry :
        /\ FileOf(Registry[r].key) = FileOf(SiteTarget(site).path)
        /\ Registry[r].hasDefaultExport
        /\ \E c \in DOMAIN Registry[r].callers :
             Registry[r].callers[c].file = parsed[site[1]]

\* The README's example: b.js is `export default 2`, c.js is
\* `const b = require('./b')`, a.js has no default export.
ReadmeExample ==
  /\ variant = "scan"
  /\ Validate(cfg)
  /\ content[FileB] = <<ExportDefault>>
  /\ content[FileC] = <<Require("plain", SpecB)>>

\* C3: the directory-scan analyzer run on the README's example ends with
\* exactly one suspicious module, b.js, whose callers are exactly the one
\* call site of c.js; a.js is not reported.
ReadmeExampleReport ==
  (ReadmeExample /\ pc \in {"done", "exit"}) =>
    /\ pc = "done"
    /\ Len(usages) = 1
    /\ FileOf(usages[1].key) = FileB
    /\ Len(usages[1].callers) = 1
    /\ FileOf(usages[1].callers[1].file) = FileC
    /\ usages[1].callers[1].line = 1

\* b.js and c.js each hold a default export and one plain require of the
\* other.
TwoFileCycle ==
  /\ content[FileB] \in {<<ExportDefault, Require("plain", SpecC)>>,
                          <<Require("plain", SpecC), ExportDefault>>}
  /\ content[FileC] \in {<<ExportDefault, Require("plain", SpecB)>>,
                          <<Require("plain", SpecB), ExportDefault>>}

\* C4: a finished run over the two-file cycle reports both files, each
\* once and each with exactly one caller, the other file.
TwoFileCycleReport ==
  (TwoFileCycle /\ pc = "done") =>
    /\ Len(usages) = 2
    /\ \E u, v \in DOMAIN usages :
         /\ FileOf(usages[u].key) = FileB
         /\ Len(usages[u].callers) = 1
         /\ FileOf(usages[u].callers[1].file) = FileC
         /\ FileOf(usages[v].key) = FileC
         /\ Len(usages[v].callers) = 1
         /\ FileOf(usages[v].callers[1].file) = FileB


\* The loop of execute has stopped: the process has exited, or the report
\* was printed over empty queues.
Stopped ==
  \/ pc = "exit"
  \/ pc = "done" /\ ~QHasItems(analyzeQueue) /\ ~QHasItems(queue)

\* What is left to do: nothing once the loop has stopped; in the loop, the
\* items queued, and for every file not yet in the visited set the turn
\* that parses it and the items its nodes can queue.
TurnsLeft ==
  IF Stopped THEN 0
  ELSE IF pc = "run"
       THEN 1 + Len(analyzeQueue) + Len(queue)
              + (MaxNodes + 1) * Cardinality(Files \ analyzedSet)
       ELSE 2 + Cardinality(Files) + Len(entries)
              + (MaxNodes + 1) * Cardinality(Files)

\* C5: whatever cycles the requires of the files form, a file that requires
\* itself included, the loop of execute comes to a stop: every step of a
\* run leaves strictly less to do, a run is in its constructor or its loop
\* until it has stopped (the report is printed over empty queues only), and
\* the number of files parsed never exceeds the number of files there are.
TerminationOnCycles ==
  /\ [][TurnsLeft' < TurnsLeft]_vars
  /\ [](Stopped \/ pc \in {"new", "run"})
  /\ [](Len(parsed) <= Cardinality(Files))

\* A finished entry-seeded run over b.js and c.js that require each other,
\* c.js requiring itself as well.
TerminationOnCyclesWitness ==
  /\ pc = "done"
  /\ variant = "entry"
  /\ content[FileB] = <<Require("plain", SpecC)>>
  /\ content[FileC] = <<Require("plain", SpecC), Require("plain", SpecB)>>
  /\ Len(parsed) = 2

\* What every call site of the plain form resolves to.
PlainTargets == [site \in Sites("plain") |-> SiteTarget(site)]

\* The callers of a record are the sites among `sites`, one entry each.
CallersAre(rec, sites) ==
  /\ Len(rec.callers) = Cardinality(sites)
  /\ \A c \in DOMAIN rec.callers :
       \E site \in sites :
         /\ rec.callers[c].file = parsed[site[1]]
         /\ variant = "scan" => rec.callers[c].line = site[2]

\* The registry holds, for every target, one caller per site in `targets`.
CallersFrom(targets) ==
  /\ \A site \in DOMAIN targets :
       targets[site].ok /\ RegHas(Registry, targets[site].path)
  /\ \A r \in DOMAIN Registry :
       CallersAre(Registry[r],
                  {site \in DOMAIN targets : targets[site].path = Registry[r].key})

\* C6: when execute has finished, the callers of every registry record are
\* as many as the plain requires of the parsed files that resolve to its
\* key, each naming the file (and, in the directory-scan variant, the
\* position) of such a require, and every plain require has its record; a
\* require that is member-accessed has added no caller.
SafeRequireExclusion ==
  pc = "done" => CallersFrom(PlainTargets)

\* A finished run in which c.js requires b.js once member-accessed and once
\* in the plain form, and the record of b.js has the one caller.
SafeRequireExclusionWitness ==
  /\ pc = "done"
  /\ content[FileC] = <<Require("member", SpecB), Require("plain", SpecB)>>
  /\ \E r \in DOMAIN Registry :
       /\ FileOf(Registry[r].key) = FileB
       /\ Len(Registry[r].callers) = 1
       /\ FileOf(Registry[r].callers[1].file) = FileC

\* C7: every record of the report is a registry record with
\* hasDefaultExport = TRUE and at least one caller; hasDefaultExport is TRUE
\* only for a path that was parsed and whose file holds a default-export
\* declaration; so no file without that declaration is reported.
ReportSoundness ==
  /\ \A u \in DOMAIN usages :
       /\ usages[u].hasDefaultExport
       /\ usages[u].callers # <<>>
       /\ \E r \in DOMAIN Registry : Registry[r] = usages[u]
       /\ FileOf(usages[u].key) \in Files
       /\ HasExportDefault(NodesOf(usages[u].key))
  /\ \A r \in DOMAIN Registry :
       Registry[r].hasDefaultExport =>
         /\ \E j \in DOMAIN parsed : parsed[j] = Registry[r].key
         /\ HasExportDefault(NodesOf(Registry[r].key))

\* A finished run that reports a module while another record, of a file
\* without a default export, has a caller and is left out of the report.
ReportSoundnessWitness ==
  /\ pc = "done"
  /\ usages # <<>>
  /\ \E r \in DOMAIN Registry :
       /\ Registry[r].callers # <<>>
       /\ ~HasExportDefault(NodesOf(Registry[r].key))
       /\ \A u \in DOMAIN usages : usages[u].key # Registry[r].key

\* C8: the key a file is visited under is the key it is recorded under as
\* the target of a require, whatever the form of the root, and the registry
\* holds no two records of one file.
RegistryKeyIdentity ==
  /\ \A r \in DOMAIN Registry : \A j \in DOMAIN parsed :
       FileOf(parsed[j]) = FileOf(Registry[r].key) => parsed[j] = Registry[r].key
  /\ \A r1, r2 \in DOMAIN Registry :
       FileOf(Registry[r1].key) = FileOf(Registry[r2].key) => r1 = r2


\* -------------------------------------------------------- a Queue alone
\* Any sequence of at most MaxCalls pushes and pops on one Queue, of the
\* class without or with the size counter.

MaxCalls == 6
Items == {"x", "y"}

InitQ ==
  /\ pc = "queue"
  /\ list \in {NewQueue, NewSizedQueue}
  /\ trace = <<>>
  /\ variant = "scan"
  /\ cfg = [cwd |-> CwdW, root |-> CwdW, alias |-> NoAlias]
  /\ entries = <<>>
  /\ content = FileContent(<<>>, <<>>)
  /\ scanQueue = <<>>
  /\ analyzeQueue = <<>>
  /\ analyzedModules = <<>>
  /\ queue = <<>>
  /\ analyzedSet = {}
  /\ suspiciousModules = <<>>
  /\ parsed = <<>>
  /\ usages = <<>>
  /\ request = <<>>
  /\ resolution = <<>>
  /\ aliased = <<>>

PushCall ==
  /\ pc = "queue" /\ Len(trace) < MaxCalls
  /\ \E item \in Items :
       /\ list' = (IF TracksSize(list) THEN SizedPush(list, item) ELSE Push(list, item))
       /\ trace' = Append(trace, [op |-> "push", item |-> <<item>>])
  /\ UNCHANGED <<rvars, runvars, pc>>

PopCall ==
  /\ pc = "queue" /\ Len(trace) < MaxCalls
  /\ list' = (IF TracksSize(list) THEN SizedPop(list) ELSE Pop(list))
  /\ trace' = Append(trace, [op |-> "pop", item |-> PopValue(list)])
  /\ UNCHANGED <<rvars, runvars, pc>>

NextQ == PushCall \/ PopCall

SpecQueue == InitQ /\ [][NextQ]_vars

\* The items pushed, and the items the pops returned, in order.
RECURSIVE ItemsOf(_, _)
ItemsOf(calls, op) ==
  IF calls = <<>> THEN <<>>
  ELSE (IF Head(calls).op = op THEN Head(calls).item ELSE <<>>)
         \o ItemsOf(Tail(calls), op)

\* C13: on one Queue, whatever the order of the pushes and pops, the k-th
\* pop that returns an item returns the k-th item pushed, a pop returns
\* null only when every item pushed was popped, and hasItems tells whether
\* one is left; also after the queue was emptied and pushed to again.
QueueFifo ==
  /\ Len(ItemsOf(trace, "pop")) <= Len(ItemsOf(trace, "push"))
  /\ ItemsOf(trace, "pop")
       = SubSeq(ItemsOf(trace, "push"), 1, Len(ItemsOf(trace, "pop")))
  /\ HasItems(list) <=> Len(ItemsOf(trace, "pop")) < Len(ItemsOf(trace, "push"))

\* A queue emptied, pushed to again while last still was the removed node,
\* and popped.
QueueFifoWitness ==
  trace = << [op |-> "push", item |-> <<"x">>], [op |-> "pop", item |-> <<"x">>],
             [op |-> "pop", item |-> <<>>], [op |-> "push", item |-> <<"y">>],
             [op |-> "pop", item |-> <<"y">>] >>


\* The nodes held: those reached from node n along next.
RECURSIVE Held(_, _)
Held(q, n) == IF n = NoNode THEN 0 ELSE 1 + Held(q, q.next[n])

\* The pushes so far less the pops that returned an item.
Balance == Len(ItemsOf(trace, "push")) - Len(ItemsOf(trace, "pop"))

\* A step that is a pop on a queue without items.
PopOnEmpty ==
  /\ ~HasItems(list)
  /\ Len(trace') = Len(trace) + 1
  /\ trace'[Len(trace')].op = "pop"

\* C24: after any pushes and pops hasItems is true exactly when more items
\* were pushed than popped; the items held are as many as that difference,
\* and the size counter of the class that has one equals their number and
\* is never negative; a pop on an empty queue returns null and leaves the
\* queue as it was.
QueueSize ==
  /\ [](/\ HasItems(list) <=> Balance > 0
        /\ Held(list, list.root) = Balance
        /\ TracksSize(list) => (list.size = Held(list, list.root) /\ list.size >= 0))
  /\ [][PopOnEmpty => (list' = list /\ trace'[Len(trace')].item = <<>>)]_vars

\* A queue with the counter, filled, emptied, popped once more and pushed
\* to again: one item held, size 1.
QueueSizeWitness ==
  /\ TracksSize(list)
  /\ list.size = 1
  /\ trace = << [op |-> "push", item |-> <<"x">>], [op |-> "push", item |-> <<"y">>],
                [op |-> "pop", item |-> <<"x">>], [op |-> "pop", item |-> <<"y">>],
                [op |-> "pop", item |-> <<>>], [op |-> "push", item |-> <<"x">>] >>


\* --------------------------------- properties of the forms of a require

\* The node of a call site.
SiteNode(site) == NodesOf(parsed[site[1]])[site[2]]

\* The path a relative or absolute specifier of a call site points at.
SitePointsAt(site) ==
  IF SiteNode(site).spec.abs THEN SiteNode(site).spec
  ELSE Normalize(PathJoin(Dirname(FileOf(parsed[site[1]])), SiteNode(site).spec))

\* The files a path can stand for: the file itself, the file of that name
\* with an extension, an index file of the directory of that name.
DenotedBy(p) ==
  {f \in Files :
     \/ f = p
     \/ /\ Dirname(f) = Dirname(p)
        /\ Basename(f)[1] = SegStr(Basename(p))
     \/ /\ Dirname(f) = p
        /\ Basename(f)[1] = "index"}

\* The specifier of the call site is a relative or an absolute path that
\* stands for no file.
NamesNothing(site) ==
  /\ SiteNode(site).spec # Undefined
  /\ SiteNode(site).spec.abs \/ IsRelativeSpecifier(SiteNode(site).spec)
  /\ DenotedBy(SitePointsAt(site)) = {}

\* C11: a run in which a parsed file requires, in the plain form, a path
\* that stands for no file never reaches its report, and no registry
\* record is ever kept under a path that stands for no file.
UnresolvableIsFatal ==
  /\ pc = "done" => \A site \in Sites("plain") : ~NamesNothing(site)
  /\ \A r \in DOMAIN Registry : FileOf(Registry[r].key) \in Files

\* C14: a require whose argument is no string literal does not abort the
\* run: a run that ends before its report has parsed a file with a plain
\* require of a string literal that does not resolve.
DynamicRequireIsSkipped ==
  pc = "exit" =>
    \E site \in Sites("plain") :
      /\ SiteNode(site).spec # Undefined
      /\ ~SiteTarget(site).ok

\* C15: the entry-seeded variant parses no file that lies inside a
\* node_modules directory and adds none to its visited set.
NodeModulesNeverParsed ==
  variant = "entry" =>
    /\ \A j \in DOMAIN parsed : ~InNodeModules(Some(parsed[j]))
    /\ \A f \in analyzedSet : ~InNodeModules(Some(f))


\* ------------------------------------------ properties of the registry

\* The item the next turn of the loop pops names a path that was parsed.
NextIsVisited ==
  /\ pc = "run"
  /\ IF variant = "scan"
     THEN /\ QHasItems(analyzeQueue)
          /\ \E j \in DOMAIN parsed : parsed[j] = Head(analyzeQueue)
     ELSE /\ QHasItems(queue)
          /\ ResolveFilePathE(cfg, Head(queue).filePath, Head(queue).parent).ok
          /\ ResolveFilePathE(cfg, Head(queue).filePath, Head(queue).parent).path
               \in analyzedSet

\* C12: analyze of a path that was visited changes neither the registry nor
\* the visited set and adds nothing to the queue, and no file is parsed
\* twice in a run, however often it is queued.
AnalyzeIsIdempotent ==
  /\ [][NextIsVisited =>
          /\ UNCHANGED <<analyzedModules, suspiciousModules, analyzedSet, parsed>>
          /\ queue' = QPopped(queue)
          /\ analyzeQueue' = QPopped(analyzeQueue)
          /\ pc' = "run"]_vars
  /\ [](\A i, j \in DOMAIN parsed : FileOf(parsed[i]) = FileOf(parsed[j]) => i = j)

\* A finished entry-seeded run in which c.js was queued as an entry and as
\* the target of a require of b.js, and parsed once.
AnalyzeIsIdempotentWitness ==
  /\ pc = "done"
  /\ entries = <<EntryB, EntryC>>
  /\ content[FileB] = <<Require("plain", SpecC)>>
  /\ parsed = <<FileB, FileC>>


\* C16: the number printed as `Analyzed N modules` is the number of files
\* that were parsed in the run.
AnalyzedCountIsParsed ==
  pc = "done" =>
    AnalyzedCount = Cardinality({FileOf(parsed[j]) : j \in DOMAIN parsed})


\* C17: under the alias table {Utilities: /w/fix/util}, an absolute
\* directory, the specifier Utilities/u resolves to /w/fix/util/u.js,
\* whatever the root.
AbsoluteAliasResolves ==
  (/\ resolution # <<>>
   /\ cfg.alias["Utilities"] = Abs(<<W, Fix, Seg("util", "")>>)
   /\ request[1].filePath = Rel(<<Utilities, Seg("u", "")>>))
  => /\ resolution[1].ok
     /\ OnDisk(cfg.cwd, resolution[1].path) = FixUtilU


\* C18: once a file that holds a default-export declaration was visited,
\* the registry has a record under its path with hasDefaultExport = TRUE,
\* whether or not a require of it was seen before.  (The file in whose
\* traversal the process exited is left aside.)
ExportCreatesRecord ==
  \A j \in DOMAIN parsed :
    (HasExportDefault(NodesOf(parsed[j])) /\ (pc # "exit" \/ j < Len(parsed)))
    => \E r \in DOMAIN Registry :
         Registry[r].key = parsed[j] /\ Registry[r].hasDefaultExport


IsPrefixOf(s, t) == Len(s) <= Len(t) /\ \A i \in DOMAIN s : t[i] = s[i]

\* The record new keeps what the record old held.
Keeps(old, new) ==
  /\ new.key = old.key
  /\ IsPrefixOf(old.callers, new.callers)
  /\ old.hasDefaultExport => new.hasDefaultExport

\* The registry new keeps every record of the registry old.
Extends(old, new) ==
  /\ Len(old) <= Len(new)
  /\ \A i \in DOMAIN old : Keeps(old[i], new[i])

\* C19: every step of a run keeps the registry keys, extends each caller
\* list at its end, and never takes hasDefaultExport from TRUE to FALSE; no
\* record is replaced by a fresh one.
RegistryIsAdditive == [][Extends(Registry, Registry')]_vars

\* A finished run whose registry holds a flagged record with two callers
\* next to other records.
RegistryIsAdditiveWitness ==
  /\ pc = "done"
  /\ Len(Registry) >= 2
  /\ \E r \in DOMAIN Registry :
       Registry[r].hasDefaultExport /\ Len(Registry[r].callers) = 2

\* The call sites <<j, i>> in the order of the traversal: the parsed files
\* in the order they were parsed, the nodes of a file in source order.
SitesInOrder ==
  [k \in 1..(Len(parsed) * MaxNodes) |->
     <<((k - 1) \div MaxNodes) + 1, ((k - 1) % MaxNodes) + 1>>]

\* The caller a call site is recorded as.
CallerOf(site) ==
  CallerRef(parsed[site[1]], IF variant = "scan" THEN site[2] ELSE 0)

\* The plain call sites, each with what its specifier resolves to.
PlainResolutions == {<<site, SiteTarget(site)>> : site \in Sites("plain")}

\* The callers of the sites of `resolved` that resolve to key, in order.
CallersInOrder(key, resolved, order) ==
  LET Hit(site) == \E t \in resolved : t[1] = site /\ t[2].path = key
      hits == SelectSeq(order, Hit)
  IN  [k \in DOMAIN hits |-> CallerOf(hits[k])]

\* Every site of `resolved` has its record, and the callers of every record
\* are its sites in the order of the traversal.
CallerLists(resolved, order) ==
  /\ \A t \in resolved : t[2].ok /\ RegHas(Registry, t[2].path)
  /\ \A r \in DOMAIN Registry :
       Registry[r].callers = CallersInOrder(Registry[r].key, resolved, order)

\* C20: when execute has finished, the caller list of every registry record
\* is the sequence of the plain requires of the parsed files that resolve
\* to its key, one entry per call (two calls in one file give two
\* entries), in the order the calls were traversed; every such call has a
\* record.
CallerListOrder ==
  pc = "done" => CallerLists(PlainResolutions, SitesInOrder)

\* A finished directory-scan run in which b.js requires c.js twice and the
\* record of c.js lists the two calls in source order.
CallerListOrderWitness ==
  /\ pc = "done"
  /\ variant = "scan"
  /\ content[FileB] = <<Require("plain", SpecC), Require("plain", SpecC)>>
  /\ \E r \in DOMAIN Registry :
       /\ FileOf(Registry[r].key) = FileC
       /\ Registry[r].callers = <<CallerRef(Registry[2].key, 1),
                                  CallerRef(Registry[2].key, 2)>>


\* C21: the absolute, extensionless specifier /w/fix/foo, with /w/fix/foo.ts
\* on disk, resolves to /w/fix/foo.ts, the path the relative specifier of
\* that file resolves to.
AbsoluteGetsExtension ==
  (/\ resolution # <<>>
   /\ request[1].filePath = Abs(<<W, Fix, Seg("foo", "")>>))
  => /\ resolution[1].ok
     /\ resolution[1].path = FixFooTs


\* ------------------------------------------------------ the scanner alone
\* Directory-scan runs over /w/scan: the root as an absolute path, relative
\* to the working directory, "." from inside, a directory below it and the
\* directory of the installed packages; the ignore option left out, or a
\* term that names a directory, or one that is part of a file name.
ScnRoots ==
  { [cwd |-> CwdW, root |-> Abs(<<W, Scn>>)],
    [cwd |-> CwdW, root |-> Rel(<<Dot, Scn>>)],
    [cwd |-> CwdW, root |-> Rel(<<Scn>>)],
    [cwd |-> Abs(<<W, Scn>>), root |-> Rel(<<Dot>>)],
    [cwd |-> Abs(<<W, Scn>>), root |-> Rel(<<Dot, Seg("src", "")>>)],
    [cwd |-> CwdW, root |-> Abs(<<W, Scn, NodeModules>>)] }

IgnoreTerms == {"src", "lib", "view"}

ScnCfgs ==
  {[cwd |-> r.cwd, root |-> r.root, alias |-> NoAlias] : r \in ScnRoots}
  \cup {[cwd |-> r.cwd, root |-> r.root, alias |-> NoAlias, ignore |-> t] :
          r \in ScnRoots, t \in IgnoreTerms}

InitScan ==
  /\ variant = "scan"
  /\ cfg \in ScnCfgs
  /\ entries = <<>>
  /\ content = FileContent(<<>>, <<>>)
  /\ pc = "new"
  /\ scanQueue = <<>>
  /\ analyzeQueue = <<>>
  /\ analyzedModules = <<>>
  /\ queue = <<>>
  /\ analyzedSet = {}
  /\ suspiciousModules = <<>>
  /\ parsed = <<>>
  /\ usages = <<>>
  /\ request = <<>>
  /\ resolution = <<>>
  /\ aliased = <<>>
  /\ list = NewQueue
  /\ trace = <<>>

NextScan == Construct \/ AnalyzeNext \/ Report

SpecScan == InitScan /\ [][NextScan]_vars

\* The names of the directories that are left out: the configured term and
\* the repository and editor directories.
IgnoredDirs == {IgnoreOf(cfg), ".git", ".vscode", ".idea"}

\* The files the scanner is to select: under the root, parseable, and in no
\* directory of an ignored name.
Selected ==
  {f \in Files :
     /\ IsPrefix(OnDisk(cfg.cwd, cfg.root).segs, f.segs)
     /\ Extname(f) \in ParseableExtensions
     /\ \A i \in 1..(Len(f.segs) - 1) : SegStr(f.segs[i]) \notin IgnoredDirs}

\* C22: when scan has completed (the constructor has returned and nothing
\* was analysed yet), the analyze queue holds every selected file once and
\* no other path; a file whose name holds an ignored term inside another
\* word is selected.
ScannerSelection ==
  (variant = "scan" /\ pc = "run" /\ parsed = <<>> /\ analyzedModules = <<>>)
  => /\ Len(analyzeQueue) = Cardinality(Selected)
     /\ {OnDisk(cfg.cwd, analyzeQueue[i]) : i \in DOMAIN analyzeQueue} = Selected


\* C23: every key of the registry, at every point of a run, is the path of
\* a file on disk with a parseable extension; a require of a built-in
\* module or of an absolute path that names nothing has created no record.
RegistryKeysAreFiles ==
  \A r \in DOMAIN Registry :
    /\ FileOf(Registry[r].key) \in Files
    /\ Extname(Registry[r].key) \in ParseableExtensions


\* The file f holds an import or a require, of any form, of the file g.
Requires(f, g) ==
  \E i \in DOMAIN content[f] :
    /\ content[f][i].kind \in {"require", "import"}
    /\ ResolveFilePathE(cfg, content[f][i].spec, Some(f)).ok
    /\ FileOf(ResolveFilePathE(cfg, content[f][i].spec, Some(f)).path) = g

\* The parseable files reached from the files S along Requires.
RECURSIVE Reached(_)
Reached(S) ==
  LET more == {g \in Files : Extname(g) \in ParseableExtensions
                              /\ \E f \in S : Requires(f, g)}
  IN  IF more \subseteq S THEN S ELSE Reached(S \cup more)

\* The entry files.
EntryFiles ==
  {FileOf(ResolveFilePathE(cfg, entries[i], NoParent).path) : i \in DOMAIN entries}

\* C25: when an entry-seeded run has ended, the files visited are the
\* parseable files reached from the entry files along the imports and the
\* requires of the visited files; a file reached only by a member-accessed
\* require is among them.
DiscoveryClosure ==
  (variant = "entry" /\ pc = "done")
  => {FileOf(p) : p \in analyzedSet} = Reached(EntryFiles)

====
